---- MODULE Spec2Model ----
(***************************************************************************)
(* Model of main2.py: the CrewAI financial market wrap workflow.           *)
(*                                                                         *)
(* One run of the script is one behaviour: the module is loaded, main()    *)
(* validates the environment, runs crew.kickoff() (four sequential tasks,  *)
(* the last of which owns telegram_sender_tool) and, when kickoff raises,  *)
(* runs the fallback: fetch_market_news, generate_market_wrap,             *)
(* send_to_telegram_direct.                                                *)
(*                                                                         *)
(* The collaborators (the CrewAI agents' language-model calls, the search  *)
(* service, litellm's completion, the Telegram API) are the environment:   *)
(* every outcome they can produce is a nondeterministic choice.            *)
(*                                                                         *)
(* Python strings that the code only passes along are tagged records;      *)
(* exception messages, which the code inspects with `in` after .lower(),   *)
(* are sequences of one-character strings.                                 *)
(***************************************************************************)
EXTENDS Integers, Sequences, FiniteSets, TLC

\* ------------------------------------------------------------------ bounds
\* The largest number of results a search response carries.
MaxResults == 5

\* ------------------------------------------------------- text of exceptions
UpperChars == <<"A","B","C","D","E","F","G","H","I","J","K","L","M",
                "N","O","P","Q","R","S","T","U","V","W","X","Y","Z">>
LowerChars == <<"a","b","c","d","e","f","g","h","i","j","k","l","m",
                "n","o","p","q","r","s","t","u","v","w","x","y","z">>

\* str.lower() on one character
LowerChar(c) ==
  IF \E k \in 1..26 : UpperChars[k] = c
  THEN LowerChars[CHOOSE k \in 1..26 : UpperChars[k] = c]
  ELSE c

\* str.lower()
Lower(s) == [k \in 1..Len(s) |-> LowerChar(s[k])]

\* `sub in s` on Python strings
Contains(sub, s) ==
  \E k \in 0..(Len(s) - Len(sub)) : SubSeq(s, k + 1, k + Len(sub)) = sub

StrRateLimit == <<"r","a","t","e"," ","l","i","m","i","t">>
StrLimit == <<"l","i","m","i","t">>
StrInternalServerError ==
  <<"i","n","t","e","r","n","a","l"," ","s","e","r","v","e","r"," ","e","r","r","o","r">>

\* Messages the language-model collaborator's exceptions carry.
MsgRateLimit == <<"R","a","t","e"," ","L","i","m","i","t">>
MsgLimitUpper == <<"T","P","M"," ","L","I","M","I","T"," ","h","i","t">>
MsgServerError ==
  <<"I","n","t","e","r","n","a","l"," ","S","e","r","v","e","r"," ","E","r","r","o","r">>
MsgServerAndLimit ==
  <<"i","n","t","e","r","n","a","l"," ","s","e","r","v","e","r"," ","e","r","r","o","r",
    ":"," ","l","i","m","i","t">>
MsgBadRequest == <<"B","a","d","R","e","q","u","e","s","t","E","r","r","o","r">>
MsgAuth == <<"i","n","v","a","l","i","d"," ","a","p","i"," ","k","e","y">>
\* completion(timeout=30) gives up on a silent service with a Timeout exception
MsgTimeout == <<"R","e","q","u","e","s","t"," ","t","i","m","e","d"," ","o","u","t">>

ErrorMessages ==
  {MsgRateLimit, MsgLimitUpper, MsgServerError, MsgServerAndLimit, MsgBadRequest, MsgAuth,
   MsgTimeout}

\* ------------------------------------------------------------ configuration
EnvNames == {"GROQ_API_KEY", "TAVILY_API_KEY", "TELEGRAM_BOT_TOKEN", "TELEGRAM_CHAT_ID"}
\* os.getenv: None when unset, otherwise the (possibly empty) string
EnvValues == {"None", "", "set"}

\* `not val` of validate_environment
Falsy(val) == val = "None" \/ val = ""

\* validate_environment(): the names whose value is falsy
Missing(e) == {v \in EnvNames : Falsy(e[v])}
validate_environment(e) == Missing(e) = {}

\* ------------------------------------------------------ collaborator outcomes
\* What the service does with a request: it answers 2xx, answers another
\* status (raise_for_status raises), the transport fails (requests.post
\* raises), or it never answers.
HttpOutcomes == {"ok", "http_error", "transport_error", "no_response"}

\* requests.post(..., timeout=30) (lines 52, 137; timeout=20 at line 104):
\* a service that never answers becomes a Timeout exception.
PostWithTimeout(h) == IF h = "no_response" THEN "timeout_error" ELSE h

\* requests.post(...) without timeout (lines 149, 166): requests waits for
\* the answer without limit, so "no_response" means the call never returns.
PostWithoutTimeout(h) == h

\* One result of the search service; r['title'] raises KeyError when absent.
Result(k) == [title |-> k, url |-> k]
ResultNoTitle(k) == [url |-> k]

SearchResponses ==
  {[http |-> "ok", results |-> [k \in 1..n |-> Result(k)]] : n \in 0..MaxResults}
    \cup {[http |-> "ok", results |-> <<ResultNoTitle(1)>>]}
    \cup {[http |-> h, results |-> <<>>] : h \in HttpOutcomes \ {"ok"}}

\* ------------------------------------------------------------------ print()
\* sys.stdout.encoding: UTF-8, or a legacy code page without emoji
StdoutEncodings == {"utf-8", "cp1252"}

\* A text handed to print: "unprintable" when str() of it raises or it holds a
\* lone surrogate, which no encoding of stdout can write.
TextKinds == {"printable", "unprintable"}

\* The literal lines of main (313, 325, 332, 345, 348) each hold an emoji.
CanEncodeEmoji(enc) == enc = "utf-8"

\* print(f"<emoji> ...{text}") returns; otherwise it raises (UnicodeEncodeError,
\* or what str() raised) and writes nothing.
Prints(enc, text) == CanEncodeEmoji(enc) /\ text # "unprintable"

\* completion(...) either returns a response or raises with a message
LLMOutcomes ==
  {[ok |-> TRUE, msg |-> <<>>]} \cup {[ok |-> FALSE, msg |-> m] : m \in ErrorMessages}

VARIABLES
  pc,              \* position of the script
  env,             \* the four values read by os.getenv at import
  stage,           \* the crew task being executed, 1..4 (0: kickoff not started)
  kickoffResult,   \* "none", or how crew.kickoff() ended: "returned" / "raised"
  toolResult,      \* what telegram_sender_tool returned ("none": not called)
  news,            \* fetch_market_news's return value
  prompt,          \* generate_market_wrap's prompt
  i,               \* generate_market_wrap's loop variable
  attempts,        \* outcomes of the completion calls of generate_market_wrap
  sleeps,          \* the wait_time of each time.sleep of generate_market_wrap
  summary,         \* generate_market_wrap's return value
  telegram_result, \* send_to_telegram_direct's return value
  message,         \* the fallback_message handed to send_to_telegram_direct
  output,          \* the outcome lines main prints, in order
  stdout,          \* the encoding of sys.stdout
  result,          \* whether the text of crew.kickoff()'s result can be printed
  error,           \* whether the text of the exception main caught can be printed
  reported,        \* the names validate_environment logged as missing
  log              \* calls made, in order

vars == <<pc, env, reported, stage, kickoffResult, toolResult, news, prompt, i, attempts, sleeps,
          summary, telegram_result, message, output, stdout, result, error, log>>

\* The last outcome line ("none": nothing yet)
printed == IF output = <<>> THEN "none" ELSE output[Len(output)]

NoValue == [kind |-> "none"]

Init ==
  /\ pc = "import"
  /\ env \in [EnvNames -> EnvValues]
  /\ stage = 0
  /\ kickoffResult = "none"
  /\ toolResult = NoValue
  /\ news = NoValue
  /\ prompt = NoValue
  /\ i = 0
  /\ attempts = <<>>
  /\ sleeps = <<>>
  /\ summary = NoValue
  /\ telegram_result = NoValue
  /\ message = NoValue
  /\ output = <<>>
  /\ stdout \in StdoutEncodings
  /\ result = "none"
  /\ error = "none"
  /\ reported = {}
  /\ log = <<>>


\* ------------------------------------------------------- tavily_search_tool
\* q[:n]
Take(q, n) == SubSeq(q, 1, IF Len(q) < n THEN Len(q) ELSE n)

\* Lines 50-79: the first three results, each field read with r.get(name, "");
\* every exception is caught and turned into the returned text. (No agent
\* lists this tool: tools=[] at lines 222, 233, 244.)
tavily_search_tool(resp) ==
  IF PostWithTimeout(resp.http) # "ok"
  THEN [kind |-> "Error searching: ", detail |-> PostWithTimeout(resp.http),
        news_articles |-> <<>>]
  ELSE [kind |-> "json", detail |-> "",
        news_articles |->
          [k \in DOMAIN Take(resp.results, 3) |->
             [title |-> IF "title" \in DOMAIN resp.results[k]
                        THEN <<resp.results[k].title>> ELSE <<>>,
              url |-> resp.results[k].url]]]

\* ------------------------------------------------------------- module import
\* Line 27: os.environ["GROQ_API_KEY"] = GROQ_API_KEY raises TypeError when
\* os.getenv returned None, so the script ends before main() is defined.
ImportModule ==
  /\ pc = "import"
  /\ IF env["GROQ_API_KEY"] = "None"
     THEN /\ output' = Append(output, "import_error")
          /\ pc' = "done"
     ELSE /\ output' = output
          /\ pc' = "main"
  /\ UNCHANGED <<env, reported, stage, kickoffResult, toolResult, news, prompt, i,
                 attempts, sleeps, summary, telegram_result, message, stdout, result,
                 error, log>>

\* ------------------------------------------------------------------- main()
\* Lines 310-316: the environment check in front of the workflow. The names
\* are logged (line 306) before line 313 prints; when that print raises, the
\* exception leaves main.
MainValidate ==
  /\ pc = "main"
  /\ IF validate_environment(env)
     THEN /\ output' = output
          /\ reported' = reported
          /\ pc' = "kickoff"
     ELSE /\ output' = Append(output, IF Prints(stdout, "printable")
                                      THEN "env_failed" ELSE "main_raised")
          /\ reported' = Missing(env)
          /\ pc' = "done"
  /\ UNCHANGED <<env, stage, kickoffResult, toolResult, news, prompt, i, attempts, sleeps,
                 summary, telegram_result, message, stdout, result, error, log>>

\* ------------------------------------------------------------ crew.kickoff()
\* Variant of Tasks: the formatting task listed before the summary task.
Tasks_Swapped == <<"search_task", "formatting_task", "summary_task", "send_task">>

\* Crew(tasks=[...], process=Process.sequential)
Tasks == <<"search_task", "summary_task", "formatting_task", "send_task">>

\* Agent(tools=[...]): only send_agent owns a tool
HasTool(t) == t = "send_task"

Kickoff ==
  /\ pc = "kickoff"
  /\ stage' = 1
  /\ pc' = "task"
  /\ log' = Append(log, "crew.kickoff")
  /\ UNCHANGED <<env, reported, kickoffResult, toolResult, news, prompt, i, attempts,
                 sleeps, summary, telegram_result, message, output, stdout, result, error>>

\* A task's agent asks its language model what to do: the call fails (the
\* exception leaves kickoff, with a text that can or cannot be printed) or
\* answers. The answer of an agent without tools is the task's output;
\* send_agent's answer is to call its tool.
RunTask ==
  /\ pc = "task"
  /\ stage \in 1..Len(Tasks)
  /\ log' = Append(log, Tasks[stage])
  /\ \E answered \in BOOLEAN, text \in TextKinds :
       IF ~answered
       THEN /\ kickoffResult' = "raised"
            /\ error' = text
            /\ pc' = "except"
            /\ UNCHANGED <<stage, result>>
       ELSE IF HasTool(Tasks[stage])
       THEN /\ pc' = "tool"
            /\ UNCHANGED <<kickoffResult, stage, result, error>>
       ELSE IF stage < Len(Tasks)
       THEN /\ stage' = stage + 1
            /\ UNCHANGED <<kickoffResult, pc, result, error>>
       ELSE /\ kickoffResult' = "returned"
            /\ result' = text
            /\ pc' = "kickoff_ended"
            /\ UNCHANGED <<stage, error>>
  /\ UNCHANGED <<env, reported, toolResult, news, prompt, i, attempts, sleeps, summary,
                 telegram_result, message, output, stdout>>

\* Lines 126-142: every exception is caught and turned into the returned text.
telegram_sender_tool(h) ==
  IF PostWithTimeout(h) = "ok"
  THEN [kind |-> "Message sent successfully to Telegram channel", detail |-> "ok"]
  ELSE [kind |-> "Error sending to Telegram: ", detail |-> PostWithTimeout(h)]

ToolCall ==
  /\ pc = "tool"
  /\ \E h \in HttpOutcomes : toolResult' = telegram_sender_tool(h)
  /\ log' = Append(log, "telegram_sender_tool")
  /\ pc' = "task_end"
  /\ UNCHANGED <<env, reported, stage, kickoffResult, news, prompt, i, attempts, sleeps,
                 summary, telegram_result, message, output, stdout, result, error>>

\* With the tool's text in hand (max_iter=1) the agent asks its language model
\* for the final answer: the call fails, or the last task ends and kickoff
\* returns its result.
FinishTask ==
  /\ pc = "task_end"
  /\ \E answered \in BOOLEAN, text \in TextKinds :
       IF answered
       THEN /\ kickoffResult' = "returned"
            /\ result' = text
            /\ pc' = "kickoff_ended"
            /\ error' = error
       ELSE /\ kickoffResult' = "raised"
            /\ error' = text
            /\ pc' = "except"
            /\ result' = result
  /\ UNCHANGED <<env, reported, stage, toolResult, news, prompt, i, attempts, sleeps,
                 summary, telegram_result, message, output, stdout, log>>

\* Lines 322-329: kickoff returned. The prints stand inside the try of line
\* 318: when the banner (line 325) or the result (line 327) cannot be printed,
\* the exception is caught at line 330 like one of kickoff. The banner fails
\* with a UnicodeEncodeError, whose own text (the character escaped) can be
\* printed. The result fails with that too when it holds a lone surrogate,
\* and with whatever its __str__ raised otherwise: a text of either kind.
MainComplete ==
  /\ pc = "kickoff_ended"
  /\ IF ~Prints(stdout, "printable")
     THEN /\ output' = output
          /\ error' = "printable"
          /\ pc' = "except"
     ELSE IF ~Prints(stdout, result)
     THEN /\ output' = Append(output, "complete")
          /\ error' \in TextKinds
          /\ pc' = "except"
     ELSE /\ output' = Append(output, "complete")
          /\ error' = error
          /\ pc' = "done"
  /\ UNCHANGED <<env, reported, stage, kickoffResult, toolResult, news, prompt, i,
                 attempts, sleeps, summary, telegram_result, message, stdout, result, log>>

\* Lines 330-334: an exception of the try block was caught. Line 332 prints
\* its text before the inner try of line 333: when that print raises, the
\* exception leaves main and the fallback does not start.
MainExcept ==
  /\ pc = "except"
  /\ IF Prints(stdout, error)
     THEN /\ output' = Append(output, "workflow_error")
          /\ pc' = "fetch_market_news"
     ELSE /\ output' = Append(output, "main_raised")
          /\ pc' = "done"
  /\ UNCHANGED <<env, reported, stage, kickoffResult, toolResult, news, prompt, i,
                 attempts, sleeps, summary, telegram_result, message, stdout, result,
                 error, log>>

\* ----------------------------------------------------------------- fallback
\* Lines 165-174 of fetch_market_news: whatever goes wrong inside the try
\* (status, transport, a result without 'title') is returned as text.
fetch_market_news(resp) ==
  IF resp.http # "ok"
  THEN [kind |-> "Error fetching news: ", detail |-> resp.http, lines |-> <<>>]
  ELSE IF resp.results = <<>>
  THEN [kind |-> "No fresh market news found.", detail |-> "", lines |-> <<>>]
  ELSE IF \E k \in DOMAIN resp.results : "title" \notin DOMAIN resp.results[k]
  THEN [kind |-> "Error fetching news: ", detail |-> "KeyError", lines |-> <<>>]
  ELSE [kind |-> "digest", detail |-> "",
        lines |-> [k \in DOMAIN resp.results |->
                     <<resp.results[k].title, resp.results[k].url>>]]

\* Line 335. When the search service never answers, requests.post never
\* returns and the script stays inside fetch_market_news.
FetchMarketNews ==
  /\ pc = "fetch_market_news"
  /\ \E resp \in SearchResponses :
       IF PostWithoutTimeout(resp.http) = "no_response"
       THEN /\ pc' = "waiting_in_fetch_market_news"
            /\ news' = news
       ELSE /\ pc' = "generate_market_wrap"
            /\ news' = fetch_market_news(resp)
  /\ log' = Append(log, "fetch_market_news")
  /\ UNCHANGED <<env, reported, stage, kickoffResult, toolResult, prompt, i, attempts, sleeps,
                 summary, telegram_result, message, output, stdout,
                 result, error>>

\* ------------------------------------------------------ generate_market_wrap
\* Variant of retries: one attempt more.
retries_Four == 3 + 1

\* Line 179
retries == 3

\* Line 191
IsRateLimit(e) == Contains(StrRateLimit, Lower(e)) \/ Contains(StrLimit, Lower(e))

\* Variant of IsServerError: any message naming an error counts as transient.
IsServerError_AnyError(e) == Contains(<<"e","r","r","o","r">>, Lower(e))

\* Line 195
IsServerError(e) == Contains(StrInternalServerError, Lower(e))

\* Variants of RateLimitWait: the attempt number off by one, either way.
RateLimitWait_OneBasedTwice(k) == (k + 2) * 15
RateLimitWait_ZeroBased(k) == k * 15

\* Line 192
RateLimitWait(k) == (k + 1) * 15

\* Variant of ServerErrorWait: the rate-limit factor copied.
ServerErrorWait_RateLimitFactor(k) == (k + 1) * 15

\* Line 196
ServerErrorWait(k) == (k + 1) * 10

\* Line 189: the text of the response
GeneratedText == [kind |-> "content", detail |-> <<>>]

\* Line 201
ErrorSummary(e) == [kind |-> "Error generating summary: ", detail |-> e]

\* Variant of ExhaustedSummary: no return statement after the loop.
ExhaustedSummary_Missing == NoValue

\* Line 202
ExhaustedSummary ==
  [kind |-> "Rate limit exceeded or LLM error after retries.", detail |-> <<>>]

\* Line 178
Prompt(text) ==
  [kind |-> "Write a concise (<300 words) US market wrap based on the news:",
   news |-> text]

\* Lines 176-179: main calls generate_market_wrap(news)
GenerateMarketWrapCall ==
  /\ pc = "generate_market_wrap"
  /\ prompt' = Prompt(news)
  /\ i' = 0
  /\ log' = Append(log, "generate_market_wrap")
  /\ pc' = "for_loop"
  /\ UNCHANGED <<env, reported, stage, kickoffResult, toolResult, news, attempts, sleeps,
                 summary, telegram_result, message, output, stdout,
                 result, error>>

\* One pass of the for loop (lines 180-201), and line 202 when the loop ends:
\* the completion call, then the return, or the classification of the
\* exception and the sleep that goes with it.
GenerateMarketWrapAttempt ==
  /\ pc = "for_loop"
  /\ i < retries
  /\ \E o \in LLMOutcomes :
       /\ attempts' = Append(attempts, o)
       /\ IF o.ok
          THEN /\ summary' = GeneratedText
               /\ pc' = "send_to_telegram_direct"
               /\ log' = Append(log, "completion")
               /\ UNCHANGED <<i, sleeps>>
          ELSE IF IsRateLimit(o.msg) \/ IsServerError(o.msg)
          THEN /\ sleeps' = Append(sleeps, IF IsRateLimit(o.msg)
                                           THEN RateLimitWait(i)
                                           ELSE ServerErrorWait(i))
               /\ log' = log \o <<"completion", "time.sleep">>
               /\ i' = i + 1
               /\ IF i + 1 < retries
                  THEN UNCHANGED <<summary, pc>>
                  ELSE /\ summary' = ExhaustedSummary
                       /\ pc' = "send_to_telegram_direct"
          ELSE /\ summary' = ErrorSummary(o.msg)
               /\ pc' = "send_to_telegram_direct"
               /\ log' = Append(log, "completion")
               /\ UNCHANGED <<i, sleeps>>
  /\ UNCHANGED <<env, reported, stage, kickoffResult, toolResult, news, prompt, telegram_result,
                 message, output, stdout,
                 result, error>>

\* ---------------------------------------------------- send_to_telegram_direct
\* Lines 145-153: every exception is caught and turned into the returned text.
send_to_telegram_direct(h) ==
  IF h = "ok"
  THEN [kind |-> "Message sent successfully", detail |-> "ok"]
  ELSE [kind |-> "Error sending Telegram message: ", detail |-> h]

\* Lines 337-342: the f-string around the summary (the dates are left out)
FallbackMessage(text) == [kind |-> "US Market Wrap - Fallback", body |-> text]

\* Variant of SendFallback: a failed fallback delivery starts the crew again.
SendFallback_RetriesPrimary ==
  /\ pc = "send_to_telegram_direct"
  /\ message' = FallbackMessage(summary)
  /\ \E h \in HttpOutcomes :
       IF PostWithoutTimeout(h) = "no_response"
       THEN /\ pc' = "waiting_in_send_to_telegram_direct"
            /\ UNCHANGED <<telegram_result, output>>
       ELSE /\ pc' = IF h = "ok" THEN "done" ELSE "kickoff"
            /\ telegram_result' = send_to_telegram_direct(h)
            /\ output' = Append(output, "fallback_completed")
  /\ log' = Append(log, "send_to_telegram_direct")
  /\ UNCHANGED <<env, reported, stage, kickoffResult, toolResult, news, prompt, i,
                 attempts, sleeps, summary, stdout, result, error>>

\* Lines 337-348. None of the three helpers can raise. When the Telegram API
\* never answers, requests.post never returns and the script stays inside
\* send_to_telegram_direct. Line 345 prints the helper's text; were its emoji
\* not encodable, the handler of lines 346-348 would catch that and its own
\* print (line 348) would raise out of main, so "Complete system failure" is
\* printed in neither case.
SendFallback ==
  /\ pc = "send_to_telegram_direct"
  /\ message' = FallbackMessage(summary)
  /\ \E h \in HttpOutcomes :
       IF PostWithoutTimeout(h) = "no_response"
       THEN /\ pc' = "waiting_in_send_to_telegram_direct"
            /\ UNCHANGED <<telegram_result, output>>
       ELSE /\ pc' = "done"
            /\ telegram_result' = send_to_telegram_direct(h)
            /\ output' = Append(output, IF Prints(stdout, "printable")
                                        THEN "fallback_completed" ELSE "main_raised")
  /\ log' = Append(log, "send_to_telegram_direct")
  /\ UNCHANGED <<env, reported, stage, kickoffResult, toolResult, news, prompt, i,
                 attempts, sleeps, summary, stdout, result, error>>

\* ------------------------------------------------------------- specification
Next ==
  \/ ImportModule
  \/ MainValidate
  \/ Kickoff
  \/ RunTask
  \/ ToolCall
  \/ FinishTask
  \/ MainComplete
  \/ MainExcept
  \/ FetchMarketNews
  \/ GenerateMarketWrapCall
  \/ GenerateMarketWrapAttempt
  \/ SendFallback

Spec == Init /\ [][Next]_vars

\* ================================================================== claims
Positions(ev) == {k \in DOMAIN log : log[k] = ev}
Count(ev) == Cardinality(Positions(ev))

RECURSIVE SumSeq(_)
SumSeq(q) == IF q = <<>> THEN 0 ELSE Head(q) + SumSeq(Tail(q))

\* The claims' own reading of the error classes (matching ignores case).
SaysLimit(m) == Contains(StrLimit, Lower(m))
SaysServerError(m) == Contains(StrInternalServerError, Lower(m))
FailedTransient(o) == ~o.ok /\ (SaysLimit(o.msg) \/ SaysServerError(o.msg))
FailedNonTransient(o) == ~o.ok /\ ~SaysLimit(o.msg) /\ ~SaysServerError(o.msg)

\* generate_market_wrap has returned to main
WrapReturned ==
  /\ pc \in {"send_to_telegram_direct", "waiting_in_send_to_telegram_direct", "done"}
  /\ Count("generate_market_wrap") = 1

\* C1: in every run of main that passes validation, delivery is attempted on
\* exactly one path: never on both the primary path (telegram_sender_tool
\* inside kickoff) and the fallback path (send_to_telegram_direct), and on no
\* path only when both paths failed.
C1_DeliveryOnExactlyOnePath ==
  (pc = "done" /\ kickoffResult # "none") =>
    /\ ~(Count("telegram_sender_tool") > 0 /\ Count("send_to_telegram_direct") > 0)
    /\ (Count("telegram_sender_tool") = 0 /\ Count("send_to_telegram_direct") = 0)
         => (kickoffResult = "raised" /\ printed = "complete_system_failure")

\* C2: the three fallback calls are made if and only if crew.kickoff raised:
\* none of them after a normal return, and the fallback is started (and run
\* to its end) after a raise.
C2_FallbackIffKickoffRaised ==
  /\ (Count("fetch_market_news") + Count("generate_market_wrap")
        + Count("send_to_telegram_direct") > 0) => kickoffResult = "raised"
  /\ (pc = "done" /\ kickoffResult = "returned") =>
        /\ Count("fetch_market_news") = 0
        /\ Count("generate_market_wrap") = 0
        /\ Count("send_to_telegram_direct") = 0
  /\ (pc = "done" /\ kickoffResult = "raised") => Count("fetch_market_news") = 1

\* C3: when the fallback's delivery call fails, main reports total failure
\* ("Complete system failure", not "Fallback completed") and makes no further
\* outbound call.
C3_FailedFallbackDeliveryIsTotalFailure ==
  (pc = "done" /\ telegram_result.kind = "Error sending Telegram message: ") =>
    /\ printed = "complete_system_failure"
    /\ log[Len(log)] = "send_to_telegram_direct"

\* C4: when the fallback's search call fails (status or transport), the
\* fallback aborts: no language-model call, no delivery call, and main reports
\* total failure.
C4_FailedSearchAbortsFallback ==
  (news.kind = "Error fetching news: " /\ news.detail \in {"http_error", "transport_error"}) =>
    /\ Count("completion") = 0
    /\ Count("send_to_telegram_direct") = 0
    /\ pc = "done" => printed = "complete_system_failure"

\* C5: when the primary pipeline's delivery stage raises, the fallback makes,
\* in this order, exactly one search call, exactly one call of
\* generate_market_wrap (1 to 3 completion calls) and exactly one delivery
\* call.
C5_FallbackAfterDeliveryStageRaises ==
  (pc = "done" /\ kickoffResult = "raised" /\ stage = 4) =>
    /\ Count("fetch_market_news") = 1
    /\ Count("generate_market_wrap") = 1
    /\ Count("completion") \in 1..3
    /\ Count("send_to_telegram_direct") = 1
    /\ \A f \in Positions("fetch_market_news"), g \in Positions("generate_market_wrap"),
          c \in Positions("completion"), d \in Positions("send_to_telegram_direct") :
         f < g /\ g < c /\ c < d /\ d = Len(log)

\* C6: whatever the language-model collaborator answers, one call of
\* generate_market_wrap makes at most 3 completion calls.
C6_AtMostThreeCompletionCalls ==
  /\ Count("completion") <= 3
  /\ Len(attempts) = Count("completion")
  /\ Count("generate_market_wrap") <= 1

C6_Witness == WrapReturned /\ Count("completion") = 3

\* C7: every backoff sleep of generate_market_wrap is at most 45 seconds and
\* the sleeps of one call add up to at most 90 seconds.
C7_SleepBounds ==
  /\ \A k \in DOMAIN sleeps : sleeps[k] <= 45
  /\ SumSeq(sleeps) <= 90

C7_Witness == WrapReturned /\ SumSeq(sleeps) = 90 /\ sleeps[3] = 45

\* C8: a non-transient error (a message with neither "limit" nor "internal
\* server error") ends generate_market_wrap at that attempt, which returns the
\* error description; when the first attempt fails so, there is exactly one
\* completion call and no sleep.
C8_NonTransientStops ==
  /\ \A k \in DOMAIN attempts :
       FailedNonTransient(attempts[k]) =>
         /\ k = Len(attempts)
         /\ WrapReturned
         /\ summary.kind = "Error generating summary: "
         /\ summary.detail = attempts[k].msg
         /\ Len(sleeps) = k - 1
  /\ (attempts # <<>> /\ FailedNonTransient(attempts[1])) =>
       /\ Count("completion") = 1
       /\ Count("time.sleep") = 0
       /\ sleeps = <<>>

C8_Witness ==
  /\ pc = "done"
  /\ attempts = <<[ok |-> FALSE, msg |-> MsgBadRequest]>>
  /\ summary.kind = "Error generating summary: "

\* C9: rate-limit errors on attempts 1 and 2 and success on attempt 3:
\* generate_market_wrap returns the generated text, having waited 15 and then
\* 30 seconds, 45 in all.
C9_TwoRateLimitsThenSuccess ==
  (/\ Len(attempts) = 3
   /\ ~attempts[1].ok /\ SaysLimit(attempts[1].msg)
   /\ ~attempts[2].ok /\ SaysLimit(attempts[2].msg)
   /\ attempts[3].ok) =>
    /\ WrapReturned
    /\ summary.kind = "content"
    /\ sleeps = <<15, 30>>
    /\ SumSeq(sleeps) = 45

C9_Witness ==
  /\ pc = "done"
  /\ attempts = <<[ok |-> FALSE, msg |-> MsgRateLimit],
                  [ok |-> FALSE, msg |-> MsgLimitUpper],
                  [ok |-> TRUE, msg |-> <<>>]>>
  /\ summary.kind = "content"

\* C10: when all 3 attempts fail with transient errors, of either class,
\* generate_market_wrap returns the fixed sentinel text to main.
C10_ExhaustedReturnsSentinel ==
  (Len(attempts) = 3 /\ \A k \in 1..3 : FailedTransient(attempts[k])) =>
    /\ WrapReturned
    /\ summary.kind = "Rate limit exceeded or LLM error after retries."

C10_Witness ==
  /\ pc = "done"
  /\ Len(attempts) = 3
  /\ SaysServerError(attempts[1].msg) /\ ~SaysLimit(attempts[1].msg)
  /\ SaysLimit(attempts[2].msg)
  /\ SaysServerError(attempts[3].msg) /\ ~SaysLimit(attempts[3].msg)
  /\ summary.kind = "Rate limit exceeded or LLM error after retries."
  /\ telegram_result.kind = "Message sent successfully"

\* C11: when any of the four configuration values is absent (unset), the
\* run ends before any pipeline runs: no kickoff, no fallback call, and the
\* absent names are reported by validate_environment.
Absent == {v \in EnvNames : env[v] = "None"}

C11_AbsentConfigAbortsAndIsReported ==
  (pc = "done" /\ Absent # {}) =>
    /\ log = <<>>
    /\ kickoffResult = "none"
    /\ printed = "env_failed"
    /\ Absent \subseteq reported

\* C12: the primary pipeline runs its tasks in the order research, summarize,
\* format, deliver; a task starts only when the one before it has produced
\* its output; a failing task is the last one run, so the delivery task and
\* its tool never run after an earlier task failed.
IsTaskEvent(ev) == ev \in {"search_task", "summary_task", "formatting_task", "send_task"}
TaskLog == SelectSeq(log, IsTaskEvent)
PipelineOrder == <<"search_task", "summary_task", "formatting_task", "send_task">>

C12_StagesInOrderFailFast ==
  /\ \E n \in 0..4 : TaskLog = SubSeq(PipelineOrder, 1, n)
  /\ stage >= 1 => Len(TaskLog) \in {stage - 1, stage}
  /\ kickoffResult = "raised" => Len(TaskLog) = stage
  /\ (kickoffResult = "raised" /\ stage < 4) =>
        Count("send_task") = 0 /\ Count("telegram_sender_tool") = 0
  /\ Count("telegram_sender_tool") <= 1
  /\ \A t \in Positions("telegram_sender_tool") :
        Len(TaskLog) = 4 /\ \A d \in Positions("send_task") : d < t

C12_Witness ==
  /\ pc = "done"
  /\ kickoffResult = "raised"
  /\ stage = 3
  /\ TaskLog = <<"search_task", "summary_task", "formatting_task">>
  /\ Count("send_to_telegram_direct") = 1

\* C13: a digest built from a search response holds at most 3 of its
\* results, however many the service returned, on both paths that build one:
\* tavily_search_tool and the fallback's fetch_market_news.
C13_DigestHasAtMostThreeResults ==
  /\ \A resp \in SearchResponses :
       Len(tavily_search_tool(resp).news_articles) <= 3
  /\ news.kind = "digest" => Len(news.lines) <= 3

\* C14: main reports completion only when a delivery was confirmed: a run in
\* which every delivery call that was issued failed ends in the total-failure
\* outcome, never in "COMPLETE" or "Fallback completed".
ToolDeliveryFailed ==
  Count("telegram_sender_tool") = 0 \/ toolResult.kind = "Error sending to Telegram: "
DirectDeliveryFailed ==
  Count("send_to_telegram_direct") = 0
    \/ telegram_result.kind = "Error sending Telegram message: "

C14_CompletionOnlyWhenDelivered ==
  (/\ pc = "done"
   /\ Count("telegram_sender_tool") + Count("send_to_telegram_direct") >= 1
   /\ ToolDeliveryFailed
   /\ DirectDeliveryFailed) =>
    /\ printed \notin {"complete", "fallback_completed"}
    /\ printed = "complete_system_failure"

\* C15: the fallback never calls the primary pipeline: crew.kickoff is called
\* at most once in a run, and nothing of the crew (kickoff, a task, its tool)
\* runs once the fallback has started.
IsFallbackEvent(ev) ==
  ev \in {"fetch_market_news", "generate_market_wrap", "completion", "time.sleep",
          "send_to_telegram_direct"}
IsPrimaryEvent(ev) == ev = "crew.kickoff" \/ IsTaskEvent(ev) \/ ev = "telegram_sender_tool"

C15_FallbackNeverCallsPrimary ==
  /\ Count("crew.kickoff") <= 1
  /\ \A p \in DOMAIN log, f \in DOMAIN log :
       (IsPrimaryEvent(log[p]) /\ IsFallbackEvent(log[f])) => p < f

C15_Witness ==
  /\ pc = "done"
  /\ kickoffResult = "raised"
  /\ Count("crew.kickoff") = 1
  /\ Count("send_to_telegram_direct") = 1
  /\ telegram_result.kind = "Error sending Telegram message: "
  /\ log[Len(log)] = "send_to_telegram_direct"

\* C16: every outbound call waits at most a fixed time, so a run of main
\* always comes to its end, also when a collaborator never answers: in no
\* state is the script left waiting with nothing more to happen.
C16_EveryCallIsBoundedSoMainEnds == pc = "done" \/ ENABLED Next

\* The number of sleeps up to and including position s of the log
SleepNumber(s) == Cardinality({t \in Positions("time.sleep") : t <= s})

\* C17 as stated: every backoff sleep of generate_market_wrap is followed by
\* another completion call, and there is no sleep after the third attempt.
C17_EverySleepPrecedesAnAttempt ==
  WrapReturned =>
    /\ \A s \in Positions("time.sleep") : \E c \in Positions("completion") : c > s
    /\ Len(sleeps) <= 2

\* C17 as amended: the sleep after a transient failure of attempt 1 or 2 is
\* followed at once by the next completion call; a transient failure of the
\* third attempt is also followed by a sleep, after which no call is made and
\* the sentinel text is returned.
C17_SleepThenRetryExceptAfterThird ==
  WrapReturned =>
    /\ \A s \in Positions("time.sleep") :
         IF SleepNumber(s) < 3
         THEN s < Len(log) /\ log[s + 1] = "completion"
         ELSE /\ SleepNumber(s) = 3
              /\ ~\E c \in Positions("completion") : c > s
              /\ summary.kind = "Rate limit exceeded or LLM error after retries."
    /\ (Len(attempts) = 3 /\ FailedTransient(attempts[3])) =>
         Len(sleeps) = 3 /\ Count("time.sleep") = 3

C17_Witness ==
  /\ pc = "done"
  /\ sleeps = <<10, 20, 30>>
  /\ Count("completion") = 3
  /\ log[Len(log) - 1] = "time.sleep"

\* C18: the sleep after failed attempt k is 15*k seconds when the message
\* contains "limit" (in any case), also when it contains "internal server
\* error" as well, and 10*k seconds when it contains "internal server error"
\* but not "limit".
C18_SleepLengthByErrorClass ==
  \A k \in DOMAIN attempts :
    FailedTransient(attempts[k]) =>
      /\ k \in DOMAIN sleeps
      /\ sleeps[k] = IF SaysLimit(attempts[k].msg) THEN 15 * k ELSE 10 * k

C18_Witness ==
  /\ WrapReturned
  /\ Len(attempts) = 3
  /\ attempts[1].msg = MsgServerError
  /\ attempts[2].msg = MsgServerAndLimit
  /\ attempts[3].msg = MsgLimitUpper
  /\ sleeps = <<10, 30, 45>>

\* C19: whenever the fallback runs (its first call, the search, has been
\* started), then once the run can take no further step the delivery call has
\* been made exactly once and the fallback message embeds the text
\* generate_market_wrap returned, whatever it is (generated text, error
\* description, sentinel) and whatever digest it was made from (results,
\* "no news", search error); no run makes the delivery call twice.
C19_FallbackAlwaysDeliversTheSummary ==
  /\ (Count("fetch_market_news") >= 1 /\ ~ENABLED Next) =>
       /\ Count("send_to_telegram_direct") = 1
       /\ summary.kind \in {"content", "Error generating summary: ",
                            "Rate limit exceeded or LLM error after retries."}
       /\ message.kind = "US Market Wrap - Fallback"
       /\ message.body = summary
       /\ prompt.news = news
  /\ Count("send_to_telegram_direct") <= 1

====
